---- MODULE Spec2Model ----
(***************************************************************************)
(* Retry-and-deduplication core of the resume/job matcher: the durable     *)
(* record store (PostgresStorage), the four retry queues, the four worker  *)
(* loops and the inline request paths that fall back to the queues.        *)
(* Time is counted in whole seconds.                                       *)
(***************************************************************************)
EXTENDS Integers, Sequences, FiniteSets, TLC

VARIABLES
  now,          \* wall clock (Date.now()), seconds
  resumes,      \* table resumes
  candidates,   \* table candidates
  jobs,         \* table job_descriptions
  matchResults, \* table match_results
  queue,        \* the four queue tables, by kind
  isRunning,    \* per worker module: let isRunning
  tasks,        \* per worker module: the item promises of the cycle in flight
  focus,        \* the queue kind exercised in this behaviour
  reqs,         \* request handlers in flight
  lastOp        \* the operation that produced the current state (history)

vars == <<now, resumes, candidates, jobs, matchResults, queue,
          isRunning, tasks, focus, reqs, lastOp>>

(***************************************************************************)
(* Bounds of the model                                                     *)
(***************************************************************************)
MaxIds == 4
MaxShortWaits == 2
MaxLongWaits == 1
\* Item promises left running by rejected cycles before store writes stop failing.
MaxOrphans == 1
\* Interval timers one worker module may have created and not cleared.
MaxTimers == 2

(***************************************************************************)
(* Program constants                                                       *)
(***************************************************************************)
MAX_RETRIES == 3
FarFuture == 365 * 24 * 60 * 60
BaseDelay == 60
DaySecs == 24 * 60 * 60

Kinds == {"extraction", "anonymization", "analysis", "match"}
NULL == -1
NoError == "null"

\* Clock steps of the model: one backoff window, and one dormancy period.
ShortWait == BaseDelay + 6
LongWait == FarFuture + 1

(***************************************************************************)
(* Errors.  An error is what the code inspects of it: its class, its       *)
(* status, its message and the two reset headers (seconds, 0 = absent).    *)
(***************************************************************************)
\* A duration header is a sequence of number-unit tokens: "1m30s" is
\* <<Tok(1, "m"), Tok(30, "s")>>; an absent or empty header is << >>.
Tok(n, u) == [n |-> n, u |-> u]
NoHeader == << >>

MkError(cls, status, msg, req, tok) ==
  [cls |-> cls, status |-> status, msg |-> msg, reqReset |-> req, tokReset |-> tok]

E429 == MkError("APIError", 429, "quota", <<Tok(1, "s")>>, <<Tok(1, "m"), Tok(30, "s")>>)
EPhrase == MkError("Error", 0, "rate limit reached", NoHeader, NoHeader)
E500 == MkError("APIError", 500, "internal server error", NoHeader, NoHeader)
EStore == MkError("Error", 0, "connection terminated", NoHeader, NoHeader)
EUnique == MkError("Error", 0, "duplicate key value violates unique constraint",
                   NoHeader, NoHeader)
EExhausted == MkError("RateLimitError", 0, "Rate limit exceeded after 3 retries",
                      NoHeader, NoHeader)
\* What the wrapped call raises on every invocation under SIMULATE_RATE_LIMIT.
ESimulated == MkError("RateLimitError", 0, "Simulated rate limit for testing",
                      NoHeader, NoHeader)
\* Headers whose text holds neither digits followed by "m" nor digits followed by "s".
EHours == MkError("APIError", 429, "quota", <<Tok(1, "h")>>, NoHeader)
\* A header in milliseconds: "100ms".
EMillis == MkError("APIError", 429, "quota", <<Tok(100, "ms")>>, NoHeader)

RateLimitPhrases == {"rate limit reached", "too many requests", "429",
                     "Rate limit exceeded after 3 retries"}

isRateLimitError_StatusOnly(error) == error.status = 429

isRateLimitError(error) ==
  \/ error.cls = "RateLimitError"
  \/ error.status = 429
  \/ error.msg \in RateLimitPhrases

Max(a, b) == IF a >= b THEN a ELSE b

\* The first match of /(\d+)m/ and of /(\d+)s/ in the header text, in
\* seconds.  The digits of "100ms" are followed by "m", not by "s".
FirstWith(duration, units) ==
  LET hits == {i \in 1..Len(duration) : duration[i].u \in units} IN
  IF hits = {} THEN 0
  ELSE duration[CHOOSE i \in hits : \A j \in hits : i <= j].n

parseDuration(duration) ==
  FirstWith(duration, {"m", "ms"}) * 60 + FirstWith(duration, {"s"})

\* parseRateLimitReset: the longer of the two header windows, 0 when none.
parseRateLimitReset(error) ==
  Max(parseDuration(error.reqReset), parseDuration(error.tokReset))

JitterHint == {-1, 0, 1}
JitterFallback == {-6, 6}

calculateNextRetry_Exponential(attemptCount, error, t) ==
  IF parseRateLimitReset(error) > 0
  THEN {t + parseRateLimitReset(error) + j : j \in JitterHint}
  ELSE {t + BaseDelay * (2 ^ attemptCount) + j : j \in JitterFallback}

\* calculateNextRetry: the timestamps the call can return at time t.
calculateNextRetry(attemptCount, error, t) ==
  IF parseRateLimitReset(error) > 0
  THEN {t + parseRateLimitReset(error) + j : j \in JitterHint}
  ELSE {t + BaseDelay + j : j \in JitterFallback}

(***************************************************************************)
(* retryWithBackoff.  outs[i] is what the i-th invocation of the action    *)
(* does: OkResult, or the error it raises.                                 *)
(***************************************************************************)
OkResult == MkError("ok", 200, "", NoHeader, NoHeader)
RawOutcomes == {OkResult, E429, EPhrase, E500}
DefaultMaxRetries == 3
OutcomeSeqs == [1..(DefaultMaxRetries + 1) -> RawOutcomes]

RECURSIVE retryLoop_RetryAll(_, _, _, _)
retryLoop_RetryAll(outs, attempt, maxRetries, sleeps) ==
  LET r == outs[attempt + 1] IN
  IF r = OkResult THEN [res |-> r, calls |-> attempt + 1, sleeps |-> sleeps]
  ELSE IF attempt < maxRetries
       THEN retryLoop_RetryAll(outs, attempt + 1, maxRetries, sleeps + 1)
  ELSE IF isRateLimitError(r)
       THEN [res |-> EExhausted, calls |-> attempt + 1, sleeps |-> sleeps]
  ELSE [res |-> r, calls |-> attempt + 1, sleeps |-> sleeps]

RECURSIVE retryLoop_RethrowLast(_, _, _, _)
retryLoop_RethrowLast(outs, attempt, maxRetries, sleeps) ==
  LET r == outs[attempt + 1] IN
  IF r = OkResult THEN [res |-> r, calls |-> attempt + 1, sleeps |-> sleeps]
  ELSE IF isRateLimitError(r) /\ attempt < maxRetries
       THEN retryLoop_RethrowLast(outs, attempt + 1, maxRetries, sleeps + 1)
  ELSE [res |-> r, calls |-> attempt + 1, sleeps |-> sleeps]

RECURSIVE retryLoop(_, _, _, _)
retryLoop(outs, attempt, maxRetries, sleeps) ==
  LET r == outs[attempt + 1] IN
  IF r = OkResult THEN [res |-> r, calls |-> attempt + 1, sleeps |-> sleeps]
  ELSE IF isRateLimitError(r) /\ attempt < maxRetries
       THEN retryLoop(outs, attempt + 1, maxRetries, sleeps + 1)
  ELSE IF isRateLimitError(r)
       THEN [res |-> EExhausted, calls |-> attempt + 1, sleeps |-> sleeps]
  ELSE [res |-> r, calls |-> attempt + 1, sleeps |-> sleeps]

retryWithBackoff(outs, maxRetries) == retryLoop(outs, 0, maxRetries, 0)

\* extractCandidateInfo / anonymizeResumeAsHTML: the inference call wrapped in
\* retryWithBackoff; the results the caller can see.
\* shouldSimulateRateLimit: with the switch on, every invocation raises.
SimulatedOutcomes == [n \in 1..(DefaultMaxRetries + 1) |-> ESimulated]
extractCandidateInfo ==
  {retryWithBackoff(o, DefaultMaxRetries).res : o \in OutcomeSeqs \cup {SimulatedOutcomes}}
anonymizeResumeAsHTML ==
  {retryWithBackoff(o, DefaultMaxRetries).res : o \in OutcomeSeqs \cup {SimulatedOutcomes}}

\* What extractCandidateInfo makes of a response that came back: the parsed
\* fields, or its defaults ("Unknown", ...) where the content has none.
ResponseContents == {"json", "null"}
candidateData(content) == IF content = "json" THEN "extracted" ELSE "Unknown"

\* analyzeJobDescriptionWithAI: one inference call; every error is caught and
\* the empty list returned.  "skills" is a list the inference produced.
analyzeJobDescriptionWithAI(outcome) ==
  IF outcome = OkResult THEN "skills" ELSE "empty"

\* calculateMatchScore: one inference call; every error is caught and a
\* score-0 result with a fixed analysis text returned.
calculateMatchScore(outcome) ==
  IF outcome = OkResult THEN "scored" ELSE "Failed to calculate match score due to AI service error"

(***************************************************************************)
(* Texts and fingerprints.  A text (or a file's bytes) is a sequence over  *)
(* the alphabet {" ", "a", "b"}.                                           *)
(***************************************************************************)
RECURSIVE trimStart(_)
trimStart(s) == IF s # <<>> /\ Head(s) = " " THEN trimStart(Tail(s)) ELSE s

RECURSIVE trimEnd(_)
trimEnd(s) ==
  IF s # <<>> /\ s[Len(s)] = " " THEN trimEnd(SubSeq(s, 1, Len(s) - 1)) ELSE s

\* String.prototype.trim
trim(s) == trimEnd(trimStart(s))

CharCode(c) == CASE c = " " -> 1 [] c = "a" -> 2 [] c = "b" -> 3

\* SHA-256 as a collision-free digest: the base-4 numeral of the text.
RECURSIVE sha256(_)
sha256(s) == IF s = <<>> THEN 0 ELSE CharCode(Head(s)) + 4 * sha256(Tail(s))

generateContentHash(buffer) == sha256(buffer)
generateTextHash(text) == sha256(text)

(***************************************************************************)
(* PostgresStorage: queue methods.  q is one queue table.                  *)
(***************************************************************************)
NewRow(id, key) ==
  [id |-> id, key |-> key, status |-> "pending", attemptCount |-> 0,
   nextRetryAt |-> NULL, lastError |-> NoError]

addToQueue_DoNothing(q, key, id) ==
  IF \E r \in q : r.key = key THEN q ELSE q \cup {NewRow(id, key)}

addToQueue(q, key, id) ==
  IF \E r \in q : r.key = key
  THEN {IF r.key = key
        THEN [r EXCEPT !.status = "pending", !.attemptCount = 0,
                       !.nextRetryAt = NULL, !.lastError = NoError]
        ELSE r : r \in q}
  ELSE q \cup {NewRow(id, key)}

getRetryableJobs_IgnoreTime(q, t) == {r \in q : r.status = "pending"}

getRetryableJobs(q, t) ==
  {r \in q : r.status = "pending" /\ (r.nextRetryAt = NULL \/ r.nextRetryAt <= t)}

incrementRetry_NoCount(q, id, error, nextRetryAt) ==
  {IF r.id = id
   THEN [r EXCEPT !.lastError = error, !.nextRetryAt = nextRetryAt]
   ELSE r : r \in q}

incrementRetry(q, id, error, nextRetryAt) ==
  {IF r.id = id
   THEN [r EXCEPT !.attemptCount = @ + 1, !.lastError = error, !.nextRetryAt = nextRetryAt]
   ELSE r : r \in q}

completeJob(q, id) == {r \in q : r.id # id}

removeMissing_AsFailure(q, id) == incrementRetry(q, id, "not found", NULL)

\* The branch of an item whose resume, job or candidate is not found:
\* complete*Job(item.id), nothing else.
removeMissing(q, id) == completeJob(q, id)

(***************************************************************************)
(* PostgresStorage: entity tables                                          *)
(***************************************************************************)
\* The UNIQUE (resume_content_hash, job_content_hash) constraint of match_results.
uniqueMatch(mr, data) == ~ \E m \in mr : m.rh = data.rh /\ m.jh = data.jh

MatchRow(id, data) ==
  [id |-> id, rh |-> data.rh, jh |-> data.jh, jobId |-> data.jobId,
   candidateId |-> data.candidateId, analysis |-> data.analysis]

\* A crash between the two writes of a non-transactional version.
createMatchAndCompleteJob_NoTx(mr, q, data, queueItemId, id, storeOk) ==
  IF ~uniqueMatch(mr, data)
  THEN [ok |-> FALSE, err |-> EUnique, mr |-> mr, q |-> q]
  ELSE IF ~storeOk
  THEN [ok |-> FALSE, err |-> EStore, mr |-> mr \cup {MatchRow(id, data)}, q |-> q]
  ELSE [ok |-> TRUE, err |-> OkResult, mr |-> mr \cup {MatchRow(id, data)},
        q |-> {r \in q : r.id # queueItemId}]

\* createMatchAndCompleteJob: one transaction; the plain insert raises on a
\* pair that is present, and any error rolls both writes back.
createMatchAndCompleteJob(mr, q, data, queueItemId, id, storeOk) ==
  IF ~uniqueMatch(mr, data)
  THEN [ok |-> FALSE, err |-> EUnique, mr |-> mr, q |-> q]
  ELSE IF ~storeOk
  THEN [ok |-> FALSE, err |-> EStore, mr |-> mr, q |-> q]
  ELSE [ok |-> TRUE, err |-> OkResult, mr |-> mr \cup {MatchRow(id, data)},
        q |-> {r \in q : r.id # queueItemId}]

createCandidate_Lost(cs, id, resumeId, info) == cs

createCandidate(cs, id, resumeId, info) ==
  cs \cup {[id |-> id, resumeId |-> resumeId, info |-> info]}

updateResumeHtml(rs, resumeId) ==
  {IF r.id = resumeId THEN [r EXCEPT !.html = TRUE] ELSE r : r \in rs}

analyzeJobDescription(js, id, requiredSkills) ==
  {IF j.id = id THEN [j EXCEPT !.skills = requiredSkills] ELSE j : j \in js}

\* gen_random_uuid(): an id no row and no item in flight carries.  The model
\* takes the least one, and has MaxIds of them.
UsedIds ==
  {x.id : x \in resumes \cup candidates \cup jobs \cup matchResults}
    \cup UNION {{r.id : r \in queue[k]} \cup {t.id : t \in tasks[k]} : k \in DOMAIN queue}
HasFreshId == \E n \in 1..MaxIds : n \notin UsedIds
FreshId == CHOOSE n \in 1..MaxIds : n \notin UsedIds /\ \A m \in 1..(n - 1) : m \in UsedIds

ById(table, id) == CHOOSE x \in table : x.id = id
Has(table, id) == \E x \in table : x.id = id

(***************************************************************************)
(* Worker loops (processQueueItems of the four worker modules)             *)
(***************************************************************************)
Op(op, kind, id, a, b) == [op |-> op, id |-> id, a |-> a, b |-> b]
Other == Op("other", "", 0, 0, 0)

\* The entities the item refers to: resume (extraction, anonymization), job
\* (analysis), candidate, its resume and the job (match).
Referenced(k, key) ==
  CASE k \in {"extraction", "anonymization"} -> Has(resumes, key[1])
    [] k = "analysis" -> Has(jobs, key[1])
    [] k = "match" -> /\ Has(candidates, key[1])
                      /\ Has(resumes, ById(candidates, key[1]).resumeId)
                      /\ Has(jobs, key[2])

NewTask(k, r) ==
  [id |-> r.id, key |-> r.key, attemptCount |-> r.attemptCount, pc |-> "start",
   pre |-> IF k = "match" THEN Referenced(k, r.key) ELSE TRUE,
   val |-> "", err |-> OkResult, st |-> "", orphan |-> FALSE]

\* The item's promise resolved with status st.
Done(t, st) == [t EXCEPT !.pc = "done", !.st = st, !.val = "", !.err = OkResult]

\* The item promises Promise.all of the cycle in progress waits for, and
\* those a rejected Promise.all left running.
Current(k) == {t \in tasks[k] : ~t.orphan}
Orphans(k) == {t \in tasks[k] : t.orphan}

\* A promise that nothing waits for is gone once it settles.
SetTask(k, t, u) ==
  [tasks EXCEPT ![k] = IF u.orphan /\ u.pc \in {"done", "rejected"}
                       THEN @ \ {t}
                       ELSE (@ \ {t}) \cup {u}]

\* The timer fires: a cycle starts unless one is in progress.
Tick(k) ==
  /\ k = focus
  /\ ~isRunning[k]
  /\ LET items == getRetryableJobs(queue[k], now) IN
     /\ items # {}
     /\ isRunning' = [isRunning EXCEPT ![k] = TRUE]
     /\ tasks' = [tasks EXCEPT ![k] = Orphans(k) \cup {NewTask(k, r) : r \in items}]
     /\ lastOp' = Op("tick", k, 0, 0, 0)
  /\ UNCHANGED <<now, resumes, candidates, jobs, matchResults, queue, focus, reqs>>

\* The inference results an item of kind k can get: a value, or an error.
InferenceResults(k) ==
  CASE k = "extraction" -> extractCandidateInfo
    [] k = "anonymization" -> anonymizeResumeAsHTML
    [] k = "analysis" -> {OkResult}
    [] k = "match" -> {OkResult}

InferenceValues(k) ==
  CASE k = "extraction" -> {candidateData(c) : c \in ResponseContents}
    [] k = "anonymization" -> {"html"}
    [] k = "analysis" -> {analyzeJobDescriptionWithAI(o) : o \in RawOutcomes}
    [] k = "match" -> {calculateMatchScore(o) : o \in RawOutcomes}

\* An item looks its entity up and, if it is there, makes the inference call.
Attempt(k, t) ==
  /\ t \in tasks[k] /\ t.pc = "start"
  /\ LET found == IF k = "match" THEN t.pre ELSE Referenced(k, t.key) IN
     IF ~found
     THEN /\ queue' = [queue EXCEPT ![k] = removeMissing(@, t.id)]
          /\ tasks' = SetTask(k, t, Done(t, "removed"))
          /\ lastOp' = Op("removed", k, t.id, 0, 0)
     ELSE /\ \E res \in InferenceResults(k) :
               IF res = OkResult
               THEN /\ \E v \in InferenceValues(k) :
                         tasks' = SetTask(k, t, [t EXCEPT !.pc = "persist", !.val = v])
                    /\ lastOp' = Other
               ELSE /\ tasks' = SetTask(k, t, [t EXCEPT !.pc = "fail", !.err = res])
                    /\ lastOp' = Other
          /\ UNCHANGED queue
  /\ UNCHANGED <<now, resumes, candidates, jobs, matchResults, isRunning, focus, reqs>>

MatchData(t, v) ==
  LET c == ById(candidates, t.key[1]) IN
  [rh |-> ById(resumes, c.resumeId).hash, jh |-> ById(jobs, t.key[2]).hash,
   jobId |-> t.key[2], candidateId |-> c.id, analysis |-> v]

\* An item persists its result.  The store call may raise (storeOk = FALSE).
Persist(k, t) ==
  /\ t \in tasks[k] /\ t.pc = "persist"
  /\ HasFreshId
  /\ \E storeOk \in BOOLEAN :
       CASE k = "match" ->
              LET r == createMatchAndCompleteJob(matchResults, queue[k],
                          MatchData(t, t.val), t.id, FreshId, storeOk) IN
              /\ matchResults' = r.mr
              /\ queue' = [queue EXCEPT ![k] = r.q]
              /\ tasks' = SetTask(k, t, IF r.ok THEN Done(t, "success")
                                          ELSE [t EXCEPT !.pc = "fail", !.err = r.err])
              /\ lastOp' = Op("createMatchAndCompleteJob", k, t.id,
                              IF r.mr = matchResults THEN 0 ELSE 1,
                              IF r.q = queue[k] THEN 0 ELSE 1)
              /\ UNCHANGED <<resumes, candidates, jobs>>
         [] k = "extraction" ->
              /\ candidates' = IF storeOk
                               THEN createCandidate(candidates, FreshId, t.key[1], t.val)
                               ELSE candidates
              /\ UNCHANGED <<resumes, jobs, matchResults, queue>>
              /\ tasks' = SetTask(k, t, IF storeOk THEN [t EXCEPT !.pc = "complete"]
                                          ELSE [t EXCEPT !.pc = "fail", !.err = EStore])
              /\ lastOp' = Other
         [] k = "anonymization" ->
              /\ resumes' = IF storeOk THEN updateResumeHtml(resumes, t.key[1]) ELSE resumes
              /\ UNCHANGED <<candidates, jobs, matchResults, queue>>
              /\ tasks' = SetTask(k, t, IF storeOk THEN [t EXCEPT !.pc = "complete"]
                                          ELSE [t EXCEPT !.pc = "fail", !.err = EStore])
              /\ lastOp' = Other
         [] k = "analysis" ->
              /\ jobs' = IF storeOk THEN analyzeJobDescription(jobs, t.key[1], t.val) ELSE jobs
              /\ UNCHANGED <<resumes, candidates, matchResults, queue>>
              /\ tasks' = SetTask(k, t, IF storeOk THEN [t EXCEPT !.pc = "complete"]
                                          ELSE [t EXCEPT !.pc = "fail", !.err = EStore])
              /\ lastOp' = Op("analyzeJobDescription", k, t.id, IF storeOk THEN 1 ELSE 0,
                              IF t.val = "empty" THEN 1 ELSE 0)
  /\ UNCHANGED <<now, isRunning, focus, reqs>>

\* complete*Job after the result is persisted (extraction, anonymization, analysis).
Complete(k, t) ==
  /\ t \in tasks[k] /\ t.pc = "complete"
  /\ queue' = [queue EXCEPT ![k] = completeJob(@, t.id)]
  /\ tasks' = SetTask(k, t, Done(t, "success"))
  /\ lastOp' = Other
  /\ UNCHANGED <<now, resumes, candidates, jobs, matchResults, isRunning, focus, reqs>>

reachedCeiling_Off(newAttemptCount) == newAttemptCount > MAX_RETRIES

reachedCeiling(newAttemptCount) == newAttemptCount >= MAX_RETRIES

AttemptCountOf(q, id) == IF Has(q, id) THEN ById(q, id).attemptCount ELSE -1

\* The catch block of an item: whatever the error, record the failure.
Fail(k, t) ==
  /\ t \in tasks[k] /\ t.pc = "fail"
  /\ LET newAttemptCount == t.attemptCount + 1 IN
     IF reachedCeiling(newAttemptCount)
     THEN /\ queue' = [queue EXCEPT ![k] =
                          incrementRetry(@, t.id, t.err.msg, now + FarFuture)]
          /\ tasks' = SetTask(k, t, Done(t, "failed"))
     ELSE /\ \E nextRetry \in calculateNextRetry(newAttemptCount, t.err, now) :
               queue' = [queue EXCEPT ![k] =
                            incrementRetry(@, t.id, t.err.msg, nextRetry)]
          /\ tasks' = SetTask(k, t, Done(t, "requeued"))
  /\ lastOp' = Op(IF isRateLimitError(t.err) THEN "failRate" ELSE "failOther", k,
                  t.id, t.attemptCount, AttemptCountOf(queue[k], t.id))
  /\ UNCHANGED <<now, resumes, candidates, jobs, matchResults, isRunning, focus, reqs>>

\* The catch block of an item when increment*Retry itself raises: nothing is
\* recorded and the item's promise rejects.
FailThrown(k, t) ==
  /\ t \in tasks[k] /\ t.pc = "fail"
  /\ Cardinality(Orphans(k)) < MaxOrphans
  /\ tasks' = SetTask(k, t, [t EXCEPT !.pc = "rejected", !.val = "", !.err = OkResult])
  /\ lastOp' = Other
  /\ UNCHANGED <<now, resumes, candidates, jobs, matchResults, queue, isRunning, focus, reqs>>

\* Promise.all settles, the summary is logged and finally clears isRunning.
CycleEnd(k) ==
  /\ isRunning[k]
  /\ \A t \in Current(k) : t.pc = "done"
  /\ isRunning' = [isRunning EXCEPT ![k] = FALSE]
  /\ tasks' = [tasks EXCEPT ![k] = Orphans(k)]
  /\ lastOp' = Other
  /\ UNCHANGED <<now, resumes, candidates, jobs, matchResults, queue, focus, reqs>>

\* Promise.all rejects with the first rejected item: finally clears isRunning
\* while the other item promises of the cycle keep running.  The timer
\* callback does not handle the rejection of processQueueItems(): depending
\* on the runtime's unhandled-rejection mode the process terminates and is
\* restarted (dies) or goes on after a warning.
CycleAbort(k) ==
  /\ isRunning[k]
  /\ \E t \in Current(k) : t.pc = "rejected"
  /\ \E dies \in BOOLEAN :
       IF dies
       THEN /\ isRunning' = [j \in Kinds |-> FALSE]
            /\ tasks' = [j \in Kinds |-> {}]
            /\ reqs' = [i \in DOMAIN reqs |-> [reqs[i] EXCEPT !.pc = "dead"]]
       ELSE /\ isRunning' = [isRunning EXCEPT ![k] = FALSE]
            /\ tasks' = [tasks EXCEPT ![k] =
                    Orphans(k) \cup {[t EXCEPT !.orphan = TRUE] :
                                       t \in {u \in Current(k) : u.pc \notin {"done", "rejected"}}}]
            /\ reqs' = reqs
  /\ lastOp' = Other
  /\ UNCHANGED <<now, resumes, candidates, jobs, matchResults, queue, focus>>

(***************************************************************************)
(* Operations of the environment: the enqueue interface, the clock, and a  *)
(* restart of the process.                                                 *)
(***************************************************************************)
OwnerKeys(k) ==
  CASE k \in {"extraction", "anonymization"} -> {<<r.id, 0>> : r \in resumes}
    [] k = "analysis" -> {<<j.id, 0>> : j \in jobs}
    [] k = "match" -> {<<c.id, j.id>> : c \in candidates, j \in jobs}

\* addTo*Queue called for an owner key (the enqueue interface).
Enqueue(k, key) ==
  /\ k = focus
  /\ key \in OwnerKeys(k)
  /\ HasFreshId
  /\ queue' = [queue EXCEPT ![k] = addToQueue(@, key, FreshId)]
  /\ lastOp' = Op("enqueue", k, key[1], key[2],
                  IF \E r \in queue[k] : r.key = key
                  THEN (CHOOSE r \in queue[k] : r.key = key).attemptCount ELSE -1)
  /\ UNCHANGED <<now, resumes, candidates, jobs, matchResults, isRunning, tasks, focus, reqs>>

ShortWaits(t) == (t % LongWait) \div ShortWait
LongWaits(t) == t \div LongWait

Advance ==
  /\ \/ /\ ShortWaits(now) < MaxShortWaits
        /\ now' = now + ShortWait
     \/ /\ LongWaits(now) < MaxLongWaits
        /\ now' = (LongWaits(now) + 1) * LongWait
  /\ lastOp' = Other
  /\ UNCHANGED <<resumes, candidates, jobs, matchResults, queue, isRunning, tasks,
                 focus, reqs>>

\* The process dies and is started again: module state is lost, the tables stay.
Crash ==
  /\ \E k \in Kinds : isRunning[k]
  /\ isRunning' = [k \in Kinds |-> FALSE]
  /\ tasks' = [k \in Kinds |-> {}]
  /\ reqs' = [i \in DOMAIN reqs |-> [reqs[i] EXCEPT !.pc = "dead"]]
  /\ lastOp' = Other
  /\ UNCHANGED <<now, resumes, candidates, jobs, matchResults, queue, focus>>

(***************************************************************************)
(* SpecQueue: one queue kind, its enqueue interface and its worker.        *)
(***************************************************************************)
\* One resume, one job and (for the match kind) the resume's candidate exist.
InitResumes == {[id |-> 101, hash |-> generateContentHash(<<"a">>), html |-> FALSE]}
InitCandidates == {[id |-> 301, resumeId |-> 101, info |-> "extracted"]}
InitJobs ==
  {[id |-> 201, hash |-> generateTextHash(<<"a">>), description |-> <<"a">>, skills |-> "empty"]}

InitQueue ==
  /\ now = 0
  /\ focus \in Kinds
  /\ resumes = InitResumes
  /\ candidates = IF focus = "match" THEN InitCandidates ELSE {}
  /\ jobs = InitJobs
  /\ matchResults = {}
  /\ queue = [k \in Kinds |-> {}]
  /\ isRunning = [k \in Kinds |-> FALSE]
  /\ tasks = [k \in Kinds |-> {}]
  /\ reqs = << >>
  /\ lastOp = Other

NextQueue ==
  \/ \E k \in Kinds : \E key \in OwnerKeys(k) : Enqueue(k, key)
  \/ \E k \in Kinds : Tick(k)
  \/ \E k \in Kinds : \E t \in tasks[k] : Attempt(k, t)
  \/ \E k \in Kinds : \E t \in tasks[k] : Persist(k, t)
  \/ \E k \in Kinds : \E t \in tasks[k] : Complete(k, t)
  \/ \E k \in Kinds : \E t \in tasks[k] : Fail(k, t)
  \/ \E k \in Kinds : \E t \in tasks[k] : FailThrown(k, t)
  \/ \E k \in Kinds : CycleEnd(k)
  \/ \E k \in Kinds : CycleAbort(k)
  \/ Advance
  \/ Crash

SpecQueue == InitQueue /\ [][NextQueue]_vars

(***************************************************************************)
(* One worker with two rows in its queue: the candidate extraction worker  *)
(* with one pending row for each of two resumes, no clock advance and no   *)
(* restart, so that a cycle holds several item promises at once.           *)
(***************************************************************************)
InitCycle ==
  /\ now = 0
  /\ focus = "extraction"
  /\ resumes = {[id |-> 101, hash |-> generateContentHash(<<"a">>), html |-> FALSE],
                [id |-> 102, hash |-> generateContentHash(<<"b">>), html |-> FALSE]}
  /\ candidates = {}
  /\ jobs = {}
  /\ matchResults = {}
  /\ queue = [k \in Kinds |-> IF k = "extraction"
                               THEN addToQueue(addToQueue({}, <<101, 0>>, 1), <<102, 0>>, 2)
                               ELSE {}]
  /\ isRunning = [k \in Kinds |-> FALSE]
  /\ tasks = [k \in Kinds |-> {}]
  /\ reqs = << >>
  /\ lastOp = Other

NextCycle ==
  \/ Tick("extraction")
  \/ \E t \in tasks["extraction"] : Attempt("extraction", t)
  \/ \E t \in tasks["extraction"] : Persist("extraction", t)
  \/ \E t \in tasks["extraction"] : Complete("extraction", t)
  \/ \E t \in tasks["extraction"] : Fail("extraction", t)
  \/ \E t \in tasks["extraction"] : FailThrown("extraction", t)
  \/ CycleEnd("extraction")
  \/ CycleAbort("extraction")

SpecCycle == InitCycle /\ [][NextCycle]_vars

(***************************************************************************)
(* Entities that disappear.  No route of the server deletes a resume, a    *)
(* candidate or a job description, and the queue tables carry no foreign   *)
(* key, so a referenced entity goes only when somebody deletes its row in  *)
(* the database, which the foreign keys of candidates and match_results    *)
(* allow when no row references it.  Each worker starts with two pending   *)
(* rows; entities are deleted between cycles, and the store accepts the    *)
(* writes of the catch block.                                              *)
(***************************************************************************)
Deletable ==
  CASE focus \in {"extraction", "anonymization"} ->
         {r \in resumes : ~ \E c \in candidates : c.resumeId = r.id}
    [] focus = "analysis" ->
         {j \in jobs : ~ \E m \in matchResults : m.jobId = j.id}
    [] focus = "match" ->
         {c \in candidates : ~ \E m \in matchResults : m.candidateId = c.id}
           \cup {j \in jobs : ~ \E m \in matchResults : m.jobId = j.id}

DeleteEntity(e) ==
  /\ e \in Deletable
  /\ ~isRunning[focus] /\ tasks[focus] = {}
  /\ resumes' = resumes \ {e}
  /\ candidates' = candidates \ {e}
  /\ jobs' = jobs \ {e}
  /\ lastOp' = Other
  /\ UNCHANGED <<now, matchResults, queue, isRunning, tasks, focus, reqs>>

GoneKeys(k) ==
  CASE k \in {"extraction", "anonymization"} -> <<(<<101, 0>>), (<<102, 0>>)>>
    [] k = "analysis" -> <<(<<201, 0>>), (<<202, 0>>)>>
    [] k = "match" -> <<(<<301, 201>>), (<<302, 201>>)>>

InitGone ==
  /\ now = 0
  /\ focus \in Kinds
  /\ resumes = {[id |-> 101, hash |-> generateContentHash(<<"a">>), html |-> FALSE],
                [id |-> 102, hash |-> generateContentHash(<<"b">>), html |-> FALSE]}
  /\ candidates = IF focus = "match"
                  THEN {[id |-> 301, resumeId |-> 101, info |-> "extracted"],
                        [id |-> 302, resumeId |-> 102, info |-> "extracted"]}
                  ELSE {}
  /\ jobs = {[id |-> 201, hash |-> generateTextHash(<<"a">>), description |-> <<"a">>,
              skills |-> "empty"],
             [id |-> 202, hash |-> generateTextHash(<<"b">>), description |-> <<"b">>,
              skills |-> "empty"]}
  /\ matchResults = {}
  /\ queue = [k \in Kinds |-> IF k = focus
                               THEN addToQueue(addToQueue({}, GoneKeys(k)[1], 1),
                                               GoneKeys(k)[2], 2)
                               ELSE {}]
  /\ isRunning = [k \in Kinds |-> FALSE]
  /\ tasks = [k \in Kinds |-> {}]
  /\ reqs = << >>
  /\ lastOp = Other

NextGone ==
  \/ \E e \in resumes \cup candidates \cup jobs : DeleteEntity(e)
  \/ \E k \in Kinds : Tick(k)
  \/ \E k \in Kinds : \E t \in tasks[k] : Attempt(k, t)
  \/ \E k \in Kinds : \E t \in tasks[k] : Persist(k, t)
  \/ \E k \in Kinds : \E t \in tasks[k] : Complete(k, t)
  \/ \E k \in Kinds : \E t \in tasks[k] : Fail(k, t)
  \/ \E k \in Kinds : CycleEnd(k)

SpecGone == InitGone /\ [][NextGone]_vars

(***************************************************************************)
(* A worker whose process can stop at any point of a cycle: one pending    *)
(* row in the extraction, anonymization or job analysis queue, nothing     *)
(* enqueued afterwards, and a restart between any two steps.               *)
(***************************************************************************)
InitRerun ==
  /\ now = 0
  /\ focus \in Kinds \ {"match"}
  /\ resumes = InitResumes
  /\ candidates = {}
  /\ jobs = InitJobs
  /\ matchResults = {}
  /\ queue = [k \in Kinds |-> IF k = focus
                               THEN addToQueue({}, CHOOSE key \in OwnerKeys(k) : TRUE, 1)
                               ELSE {}]
  /\ isRunning = [k \in Kinds |-> FALSE]
  /\ tasks = [k \in Kinds |-> {}]
  /\ reqs = << >>
  /\ lastOp = Other

NextRerun ==
  \/ \E k \in Kinds : Tick(k)
  \/ \E k \in Kinds : \E t \in tasks[k] : Attempt(k, t)
  \/ \E k \in Kinds : \E t \in tasks[k] : Persist(k, t)
  \/ \E k \in Kinds : \E t \in tasks[k] : Complete(k, t)
  \/ \E k \in Kinds : \E t \in tasks[k] : Fail(k, t)
  \/ \E k \in Kinds : CycleEnd(k)
  \/ Crash

SpecRerun == InitRerun /\ [][NextRerun]_vars

(***************************************************************************)
(* A worker left to itself: one pending row, a timer that keeps firing,    *)
(* inference and store calls that all return, a store that accepts the     *)
(* writes of the catch block, and no restart.  The owner key may be        *)
(* enqueued again while its row exists, until EnqueueWindow has passed;    *)
(* the clock moves on when the row is waiting for its retry time.          *)
(***************************************************************************)
EnqueueWindow == MaxShortWaits * ShortWait

Dormant(r) == r.status = "pending" /\ r.nextRetryAt # NULL /\ r.nextRetryAt >= FarFuture

Requeue(k, key) ==
  /\ now < EnqueueWindow
  /\ \E r \in queue[k] : r.key = key
  /\ Enqueue(k, key)

\* Time passes until the row's retry time is reached.
Elapse ==
  /\ ~isRunning[focus] /\ tasks[focus] = {}
  /\ getRetryableJobs(queue[focus], now) = {}
  /\ \E r \in queue[focus] : ~Dormant(r)
  /\ now' = now + ShortWait
  /\ lastOp' = Other
  /\ UNCHANGED <<resumes, candidates, jobs, matchResults, queue, isRunning, tasks,
                 focus, reqs>>

InitLive ==
  /\ now = 0
  /\ focus \in Kinds
  /\ resumes = InitResumes
  /\ candidates = IF focus = "match" THEN InitCandidates ELSE {}
  /\ jobs = InitJobs
  /\ matchResults = {}
  /\ queue = [k \in Kinds |-> IF k = focus
                               THEN addToQueue({}, CHOOSE key \in OwnerKeys(k) : TRUE, 1)
                               ELSE {}]
  /\ isRunning = [k \in Kinds |-> FALSE]
  /\ tasks = [k \in Kinds |-> {}]
  /\ reqs = << >>
  /\ lastOp = Other

NextLive ==
  \/ \E k \in Kinds : \E key \in OwnerKeys(k) : Requeue(k, key)
  \/ \E e \in resumes \cup candidates \cup jobs : DeleteEntity(e)
  \/ \E k \in Kinds : Tick(k)
  \/ \E k \in Kinds : \E t \in tasks[k] : Attempt(k, t)
  \/ \E k \in Kinds : \E t \in tasks[k] : Persist(k, t)
  \/ \E k \in Kinds : \E t \in tasks[k] : Complete(k, t)
  \/ \E k \in Kinds : \E t \in tasks[k] : Fail(k, t)
  \/ \E k \in Kinds : CycleEnd(k)
  \/ Elapse

\* setInterval keeps calling processQueueItems, every awaited call of a cycle
\* settles, and time passes.
FairLive ==
  /\ WF_vars(\E k \in Kinds : Tick(k))
  /\ WF_vars(\E k \in Kinds : \E t \in tasks[k] : Attempt(k, t))
  /\ WF_vars(\E k \in Kinds : \E t \in tasks[k] : Persist(k, t))
  /\ WF_vars(\E k \in Kinds : \E t \in tasks[k] : Complete(k, t))
  /\ WF_vars(\E k \in Kinds : \E t \in tasks[k] : Fail(k, t))
  /\ WF_vars(\E k \in Kinds : CycleEnd(k))
  /\ WF_vars(Elapse)

SpecLive == InitLive /\ [][NextLive]_vars /\ FairLive

(***************************************************************************)
(* POST /api/job-descriptions.  Two request handlers run concurrently and  *)
(* interleave at their awaits.                                             *)
(***************************************************************************)
Requests == {"r1", "r2"}
Descriptions == {<<"a">>, <<" ", "a">>, <<"a", " ">>, <<"b">>}

SetReq(i, r) == [reqs EXCEPT ![i] = r]

JobIdle ==
  [pc |-> "idle", desc |-> <<>>, pre |-> NULL, jobId |-> NULL, created |-> FALSE,
   out |-> OkResult, val |-> "", status |-> ""]

\* The contentHash column of job_descriptions and of resumes is unique.
uniqueContentHash(table, hash) == ~ \E x \in table : x.hash = hash

getJobDescriptionByHash(js, hash) == {j \in js : j.hash = hash}

createJobDescription(js, id, hash, description) ==
  js \cup {[id |-> id, hash |-> hash, description |-> description, skills |-> "empty"]}

normalizedDescription_Raw(description) == description

normalizedDescription(description) == trim(description)

\* The row, if any, that holds the same description up to surrounding blanks.
SameText(js, description) ==
  IF \E j \in js : trim(j.description) = trim(description)
  THEN (CHOOSE j \in js : trim(j.description) = trim(description)).id
  ELSE NULL

\* The handler normalizes, fingerprints and looks the fingerprint up.
JobLookup(i, description) ==
  /\ reqs[i].pc = "idle"
  /\ LET contentHash == generateTextHash(normalizedDescription(description))
         found == getJobDescriptionByHash(jobs, contentHash)
         r == [JobIdle EXCEPT !.desc = description, !.pre = SameText(jobs, description)]
     IN
     IF found # {}
     THEN LET jobDesc == CHOOSE j \in found : TRUE IN
          IF jobDesc.skills # "empty"
          THEN reqs' = SetReq(i, [r EXCEPT !.pc = "done", !.jobId = jobDesc.id,
                                           !.status = "complete"])
          ELSE reqs' = SetReq(i, [r EXCEPT !.pc = "analyze", !.jobId = jobDesc.id])
     ELSE reqs' = SetReq(i, [r EXCEPT !.pc = "create"])
  /\ lastOp' = Other
  /\ UNCHANGED <<now, resumes, candidates, jobs, matchResults, queue, isRunning, tasks, focus>>

\* createJobDescription; a fingerprint that is present by now raises.
JobCreate(i) ==
  /\ reqs[i].pc = "create"
  /\ HasFreshId
  /\ LET norm == normalizedDescription(reqs[i].desc)
         contentHash == generateTextHash(norm)
     IN
     IF uniqueContentHash(jobs, contentHash)
     THEN /\ jobs' = createJobDescription(jobs, FreshId, contentHash, norm)
          /\ reqs' = SetReq(i, [reqs[i] EXCEPT !.pc = "analyze", !.jobId = FreshId,
                                               !.created = TRUE])
     ELSE /\ jobs' = jobs
          /\ reqs' = SetReq(i, [reqs[i] EXCEPT !.pc = "done", !.status = "error"])
  /\ lastOp' = Other
  /\ UNCHANGED <<now, resumes, candidates, matchResults, queue, isRunning, tasks, focus>>

\* The inline inference call.
JobAnalyze(i) ==
  /\ reqs[i].pc = "analyze"
  /\ \E o \in RawOutcomes :
       reqs' = SetReq(i, [reqs[i] EXCEPT !.pc = "write", !.out = o,
                                         !.val = analyzeJobDescriptionWithAI(o)])
  /\ lastOp' = Other
  /\ UNCHANGED <<now, resumes, candidates, jobs, matchResults, queue, isRunning, tasks, focus>>

\* storage.analyzeJobDescription and the response; the catch block around the
\* analysis enqueues on a rate-limit error and rethrows any other.
JobWrite(i) ==
  /\ reqs[i].pc = "write"
  /\ HasFreshId
  /\ \E storeOk \in BOOLEAN :
       IF storeOk
       THEN /\ jobs' = analyzeJobDescription(jobs, reqs[i].jobId, reqs[i].val)
            /\ queue' = queue
            /\ reqs' = SetReq(i, [reqs[i] EXCEPT !.pc = "done", !.status = "complete"])
            /\ lastOp' = Op("analyzeJobDescription", "analysis", reqs[i].jobId, 1,
                            IF reqs[i].val = "empty" THEN 1 ELSE 0)
       ELSE /\ jobs' = jobs
            /\ lastOp' = Other
            /\ IF isRateLimitError(EStore)
               THEN /\ queue' = [queue EXCEPT !["analysis"] =
                                    addToQueue(@, <<reqs[i].jobId, 0>>, FreshId)]
                    /\ reqs' = SetReq(i, [reqs[i] EXCEPT !.pc = "done", !.status = "queued"])
               ELSE /\ queue' = queue
                    /\ reqs' = SetReq(i, [reqs[i] EXCEPT !.pc = "done", !.status = "error"])
  /\ UNCHANGED <<now, resumes, candidates, matchResults, isRunning, tasks, focus>>

\* The response is sent; the next request can come in.
JobRespond(i) ==
  /\ reqs[i].pc = "done"
  /\ reqs' = SetReq(i, JobIdle)
  /\ lastOp' = Other
  /\ UNCHANGED <<now, resumes, candidates, jobs, matchResults, queue, isRunning, tasks, focus>>

InitJob ==
  /\ now = 0
  /\ focus = "job"
  /\ resumes = {}
  /\ candidates = {}
  /\ jobs = {}
  /\ matchResults = {}
  /\ queue = [k \in Kinds |-> {}]
  /\ isRunning = [k \in Kinds |-> FALSE]
  /\ tasks = [k \in Kinds |-> {}]
  /\ reqs = [i \in Requests |-> JobIdle]
  /\ lastOp = Other

NextJob ==
  \/ \E i \in Requests : \E d \in Descriptions : JobLookup(i, d)
  \/ \E i \in Requests : JobCreate(i)
  \/ \E i \in Requests : JobAnalyze(i)
  \/ \E i \in Requests : JobWrite(i)
  \/ \E i \in Requests : JobRespond(i)

SpecJob == InitJob /\ [][NextJob]_vars

(***************************************************************************)
(* POST /api/resumes/upload: processResumeFile under                       *)
(* processFileWithErrorHandling, one handler per file, run concurrently.   *)
(***************************************************************************)
Buffers == {<<"a">>, <<"b">>}

UploadIdle ==
  [pc |-> "idle", buf |-> <<>>, pre |-> NULL, resumeId |-> NULL, candidateId |-> NULL,
   ext |-> OkResult, anon |-> OkResult, status |-> ""]

getResumeByHash(rs, hash) == {r \in rs : r.hash = hash}
getCandidateByResumeId(cs, resumeId) == {c \in cs : c.resumeId = resumeId}

createResume(rs, id, hash) == rs \cup {[id |-> id, hash |-> hash, html |-> FALSE]}

\* The resume, if any, that holds the same bytes.
SameBytes(rs, buffer) ==
  IF \E r \in rs : r.hash = generateContentHash(buffer)
  THEN (CHOOSE r \in rs : r.hash = generateContentHash(buffer)).id
  ELSE NULL

\* Fingerprint lookup: skipped only if the resume and its candidate both exist.
UploadLookup(i, buffer) ==
  /\ reqs[i].pc = "idle"
  /\ LET contentHash == generateContentHash(buffer)
         existingResume == getResumeByHash(resumes, contentHash)
         existingCandidate ==
           IF existingResume = {} THEN {}
           ELSE getCandidateByResumeId(candidates, (CHOOSE r \in existingResume : TRUE).id)
         r == [UploadIdle EXCEPT !.buf = buffer, !.pre = SameBytes(resumes, buffer)]
     IN
     IF existingResume # {} /\ existingCandidate # {}
     THEN reqs' = SetReq(i, [r EXCEPT !.pc = "done", !.status = "skipped",
                     !.resumeId = (CHOOSE x \in existingResume : TRUE).id,
                     !.candidateId = (CHOOSE c \in existingCandidate : TRUE).id])
     ELSE reqs' = SetReq(i, [r EXCEPT !.pc = "create"])
  /\ lastOp' = Other
  /\ UNCHANGED <<now, resumes, candidates, jobs, matchResults, queue, isRunning, tasks, focus>>

\* extractTextFromFile, then createResume; either may raise.
UploadCreate(i) ==
  /\ reqs[i].pc = "create"
  /\ HasFreshId
  /\ \E textOk \in BOOLEAN :
       LET contentHash == generateContentHash(reqs[i].buf) IN
       IF textOk /\ uniqueContentHash(resumes, contentHash)
       THEN /\ resumes' = createResume(resumes, FreshId, contentHash)
            /\ reqs' = SetReq(i, [reqs[i] EXCEPT !.pc = "infer", !.resumeId = FreshId])
       ELSE /\ resumes' = resumes
            /\ reqs' = SetReq(i, [reqs[i] EXCEPT !.pc = "done", !.status = "failed"])
  /\ lastOp' = Other
  /\ UNCHANGED <<now, candidates, jobs, matchResults, queue, isRunning, tasks, focus>>

\* Promise.allSettled of the two inference calls.
UploadInfer(i) ==
  /\ reqs[i].pc = "infer"
  /\ \E e \in extractCandidateInfo, a \in anonymizeResumeAsHTML :
       reqs' = SetReq(i, [reqs[i] EXCEPT !.pc = "extraction", !.ext = e, !.anon = a])
  /\ lastOp' = Other
  /\ UNCHANGED <<now, resumes, candidates, jobs, matchResults, queue, isRunning, tasks, focus>>

\* The extraction result: candidate row, queue row, or the error is thrown.
UploadExtraction(i) ==
  /\ reqs[i].pc = "extraction"
  /\ HasFreshId
  /\ LET r == reqs[i] IN
     IF r.ext = OkResult
     THEN /\ \E c \in ResponseContents :
               candidates' = createCandidate(candidates, FreshId, r.resumeId, candidateData(c))
          /\ queue' = queue
          /\ reqs' = SetReq(i, [r EXCEPT !.pc = "anonymization", !.candidateId = FreshId])
     ELSE IF isRateLimitError(r.ext)
     THEN /\ queue' = [queue EXCEPT !["extraction"] = addToQueue(@, <<r.resumeId, 0>>, FreshId)]
          /\ candidates' = candidates
          /\ reqs' = SetReq(i, [r EXCEPT !.pc = "anonymization"])
     ELSE /\ UNCHANGED <<candidates, queue>>
          /\ reqs' = SetReq(i, [r EXCEPT !.pc = "done", !.status = "failed"])
  /\ lastOp' = Other
  /\ UNCHANGED <<now, resumes, jobs, matchResults, isRunning, tasks, focus>>

\* The anonymization result, and the status of the file: "completed" also
\* when either call was queued.
UploadAnonymization(i) ==
  /\ reqs[i].pc = "anonymization"
  /\ HasFreshId
  /\ LET r == reqs[i] IN
     IF r.anon = OkResult
     THEN /\ resumes' = updateResumeHtml(resumes, r.resumeId)
          /\ queue' = queue
          /\ reqs' = SetReq(i, [r EXCEPT !.pc = "done", !.status = "completed"])
     ELSE IF isRateLimitError(r.anon)
     THEN /\ queue' = [queue EXCEPT !["anonymization"] =
                          addToQueue(@, <<r.resumeId, 0>>, FreshId)]
          /\ resumes' = resumes
          /\ reqs' = SetReq(i, [r EXCEPT !.pc = "done", !.status = "completed"])
     ELSE /\ UNCHANGED <<resumes, queue>>
          /\ reqs' = SetReq(i, [r EXCEPT !.pc = "done", !.status = "failed"])
  /\ lastOp' = Other
  /\ UNCHANGED <<now, candidates, jobs, matchResults, isRunning, tasks, focus>>

UploadRespond(i) ==
  /\ reqs[i].pc = "done"
  /\ reqs' = SetReq(i, UploadIdle)
  /\ lastOp' = Other
  /\ UNCHANGED <<now, resumes, candidates, jobs, matchResults, queue, isRunning, tasks, focus>>

InitUpload ==
  /\ now = 0
  /\ focus = "upload"
  /\ resumes = {}
  /\ candidates = {}
  /\ jobs = {}
  /\ matchResults = {}
  /\ queue = [k \in Kinds |-> {}]
  /\ isRunning = [k \in Kinds |-> FALSE]
  /\ tasks = [k \in Kinds |-> {}]
  /\ reqs = [i \in Requests |-> UploadIdle]
  /\ lastOp = Other

NextUpload ==
  \/ \E i \in Requests : \E b \in Buffers : UploadLookup(i, b)
  \/ \E i \in Requests : UploadCreate(i)
  \/ \E i \in Requests : UploadInfer(i)
  \/ \E i \in Requests : UploadExtraction(i)
  \/ \E i \in Requests : UploadAnonymization(i)
  \/ \E i \in Requests : UploadRespond(i)

SpecUpload == InitUpload /\ [][NextUpload]_vars

(***************************************************************************)
(* POST /api/job-descriptions/:jobId/match, run by two concurrent handlers *)
(* next to the match worker, which works on the row of candidate 301.      *)
(***************************************************************************)
FailureText == calculateMatchScore(E500)

MatchIdle ==
  [pc |-> "idle", resumeIds |-> {}, calls |-> {}, okCalls |-> 0, existing |-> {},
   news |-> {}, created |-> {}, inserted |-> {}, answered |-> {}, status |-> ""]

getCandidatesByResumeIds(cs, resumeIds) == {c \in cs : c.resumeId \in resumeIds}

getMatchResultsByHashPairs(mr, hashPairs) ==
  {m \in mr : \E h \in hashPairs : m.rh = h.resumeHash /\ m.jh = h.jobHash}

FreeIds == {n \in 1..MaxIds : n \notin UsedIds}
Least(S) == CHOOSE n \in S : \A m \in S : n <= m

\* insert ... on conflict do nothing returning: list is taken row by row; a
\* row whose pair is present is left out of the table and of the result.
RECURSIVE batchInsert(_, _, _, _)
batchInsert(mr, list, free, returned) ==
  IF list = {} THEN [ok |-> TRUE, mr |-> mr, created |-> returned]
  ELSE LET d == CHOOSE x \in list : TRUE IN
       IF uniqueMatch(mr, d)
       THEN batchInsert(mr \cup {MatchRow(Least(free), d)}, list \ {d},
                        free \ {Least(free)}, returned \cup {MatchRow(Least(free), d)})
       ELSE batchInsert(mr, list \ {d}, free, returned)

\* A plain insert of the batch: a pair that is present raises.
batchCreateMatchResults_Plain(mr, list, free) ==
  IF \E d \in list : ~uniqueMatch(mr, d)
  THEN [ok |-> FALSE, mr |-> mr, created |-> {}]
  ELSE batchInsert(mr, list, free, {})

batchCreateMatchResults(mr, list, free) == batchInsert(mr, list, free, {})

PairOf(c, jobDesc) ==
  [resumeHash |-> ById(resumes, c.resumeId).hash, jobHash |-> jobDesc.hash]

\* The handler reads the job, the candidates, their resumes and the results
\* that exist for their hash pairs.
MatchRead(i, jobId, resumeIds) ==
  /\ reqs[i].pc = "idle"
  /\ resumeIds # {}
  /\ Has(jobs, jobId)
  /\ LET jobDesc == ById(jobs, jobId)
         cands == getCandidatesByResumeIds(candidates, resumeIds)
         hashPairs == {PairOf(c, jobDesc) : c \in cands}
         existingMatchRecords == getMatchResultsByHashPairs(matchResults, hashPairs)
     IN reqs' = SetReq(i, [MatchIdle EXCEPT !.pc = "score", !.resumeIds = resumeIds,
                                            !.existing = existingMatchRecords])
  /\ lastOp' = Other
  /\ UNCHANGED <<now, resumes, candidates, jobs, matchResults, queue, isRunning, tasks, focus>>

\* The candidate promises: a pair found at the read is reused, any other is
\* scored.  calculateMatchScore raises nothing, so every scored candidate
\* yields a row to insert.
MatchScore(i, jobId) ==
  /\ reqs[i].pc = "score"
  /\ LET jobDesc == ById(jobs, jobId)
         cands == getCandidatesByResumeIds(candidates, reqs[i].resumeIds)
         toScore == {c \in cands :
                       ~ \E m \in reqs[i].existing :
                           /\ m.rh = PairOf(c, jobDesc).resumeHash
                           /\ m.jh = PairOf(c, jobDesc).jobHash}
     IN \E outs \in [toScore -> RawOutcomes] :
          reqs' = SetReq(i, [reqs[i] EXCEPT
                     !.pc = "insert",
                     !.calls = {c.id : c \in toScore},
                     !.okCalls = Cardinality({c \in toScore : outs[c] = OkResult}),
                     !.news = {[rh |-> PairOf(c, jobDesc).resumeHash,
                                jh |-> PairOf(c, jobDesc).jobHash,
                                jobId |-> jobId, candidateId |-> c.id,
                                analysis |-> calculateMatchScore(outs[c])] : c \in toScore}])
  /\ lastOp' = Other
  /\ UNCHANGED <<now, resumes, candidates, jobs, matchResults, queue, isRunning, tasks, focus>>

\* batchCreateMatchResults of the new rows, and the response; the handler ends.
\* The batch is inserted only when there are new rows; a store error raised
\* by it reaches the handler's outer catch, which answers 500 with a message.
MatchInsert(i) ==
  /\ reqs[i].pc = "insert"
  /\ Cardinality(FreeIds) >= Cardinality(reqs[i].news)
  /\ \E storeOk \in IF reqs[i].news = {} THEN {TRUE} ELSE BOOLEAN :
       IF storeOk
       THEN LET r == batchCreateMatchResults(matchResults, reqs[i].news, FreeIds) IN
            /\ matchResults' = r.mr
            /\ reqs' = SetReq(i, [reqs[i] EXCEPT !.pc = "done", !.created = r.created,
                                    !.inserted = r.mr \ matchResults,
                                    !.answered = IF r.ok
                                                 THEN reqs[i].existing \cup r.created
                                                 ELSE {},
                                    !.status = IF r.ok THEN "ok" ELSE "error"])
       ELSE /\ matchResults' = matchResults
            /\ reqs' = SetReq(i, [reqs[i] EXCEPT !.pc = "done", !.status = "storeError"])
  /\ lastOp' = Other
  /\ UNCHANGED <<now, resumes, candidates, jobs, queue, isRunning, tasks, focus>>

MatchResumes ==
  {[id |-> 101, hash |-> generateContentHash(<<"a">>), html |-> FALSE],
   [id |-> 102, hash |-> generateContentHash(<<"b">>), html |-> FALSE]}
MatchCandidates ==
  {[id |-> 301, resumeId |-> 101, info |-> "extracted"],
   [id |-> 302, resumeId |-> 102, info |-> "extracted"]}

InitMatch ==
  /\ now = 0
  /\ focus = "match"
  /\ resumes = MatchResumes
  /\ candidates = MatchCandidates
  /\ jobs = InitJobs
  /\ matchResults = {}
  /\ queue = [k \in Kinds |-> {}]
  /\ isRunning = [k \in Kinds |-> FALSE]
  /\ tasks = [k \in Kinds |-> {}]
  /\ reqs = [i \in Requests |-> MatchIdle]
  /\ lastOp = Other

NextMatch ==
  \/ \E i \in Requests : \E ids \in SUBSET {r.id : r \in resumes} : MatchRead(i, 201, ids)
  \/ \E i \in Requests : MatchScore(i, 201)
  \/ \E i \in Requests : MatchInsert(i)
  \/ Enqueue("match", <<301, 201>>)
  \/ Tick("match")
  \/ \E t \in tasks["match"] : Attempt("match", t)
  \/ \E t \in tasks["match"] : Persist("match", t)
  \/ \E t \in tasks["match"] : Fail("match", t)
  \/ \E t \in tasks["match"] : FailThrown("match", t)
  \/ CycleEnd("match")
  \/ CycleAbort("match")

SpecMatch == InitMatch /\ [][NextMatch]_vars

(***************************************************************************)
(* Properties of the queues and the workers (SpecQueue)                    *)
(***************************************************************************)
(* start*Worker and stop*Worker.  For a worker module k, reqs[k] holds the *)
(* module variable intervalId and the interval timers that exist: a timer  *)
(* lives until clearInterval is called with its handle.  The extraction    *)
(* queue holds one pending row and requests may enqueue it again.          *)
(***************************************************************************)
Modules == {"extraction", "match"}
TimerIdle == [pc |-> "module", intervalId |-> NULL, live |-> {}]

\* processQueueItems() called without a tick of the clock: the guard, the
\* fetch and the start of the items, or nothing.
processQueueItems(k) ==
  LET items == IF k = focus THEN getRetryableJobs(queue[k], now) ELSE {} IN
  IF ~isRunning[k] /\ items # {}
  THEN /\ isRunning' = [isRunning EXCEPT ![k] = TRUE]
       /\ tasks' = [tasks EXCEPT ![k] = Orphans(k) \cup {NewTask(k, r) : r \in items}]
  ELSE UNCHANGED <<isRunning, tasks>>

\* start*Worker: one cycle at once, then a new interval timer whose handle
\* replaces the one in intervalId.
StartWorker(k) ==
  /\ Cardinality(reqs[k].live) < MaxTimers
  /\ processQueueItems(k)
  /\ LET handle == CHOOSE n \in 1..MaxTimers : n \notin reqs[k].live IN
     reqs' = SetReq(k, [reqs[k] EXCEPT !.intervalId = handle, !.live = @ \cup {handle}])
  /\ lastOp' = Op("start", k, 0, 0, 0)
  /\ UNCHANGED <<now, resumes, candidates, jobs, matchResults, queue, focus>>

\* stop*Worker: clearInterval(intervalId) if it is set.
StopWorker(k) ==
  /\ reqs' = SetReq(k, [reqs[k] EXCEPT !.intervalId = NULL,
                                       !.live = @ \ {reqs[k].intervalId}])
  /\ lastOp' = Op("stop", k, 0, 0, 0)
  /\ UNCHANGED <<now, resumes, candidates, jobs, matchResults, queue, isRunning, tasks, focus>>

\* An interval timer of the module fires.
TimerFire(k) ==
  /\ reqs[k].live # {}
  /\ Tick(k)

InitTimer ==
  /\ now = 0
  /\ focus = "extraction"
  /\ resumes = InitResumes
  /\ candidates = {}
  /\ jobs = InitJobs
  /\ matchResults = {}
  /\ queue = [k \in Kinds |-> IF k = focus THEN addToQueue({}, <<101, 0>>, 1) ELSE {}]
  /\ isRunning = [k \in Kinds |-> FALSE]
  /\ tasks = [k \in Kinds |-> {}]
  /\ reqs = [k \in Modules |-> TimerIdle]
  /\ lastOp = Other

NextTimer ==
  \/ \E key \in OwnerKeys("extraction") : Enqueue("extraction", key)
  \/ \E k \in Modules : StartWorker(k)
  \/ \E k \in Modules : StopWorker(k)
  \/ \E k \in Modules : TimerFire(k)
  \/ \E k \in Modules : \E t \in tasks[k] : Attempt(k, t)
  \/ \E k \in Modules : \E t \in tasks[k] : Persist(k, t)
  \/ \E k \in Modules : \E t \in tasks[k] : Complete(k, t)
  \/ \E k \in Modules : \E t \in tasks[k] : Fail(k, t)
  \/ \E k \in Modules : CycleEnd(k)

SpecTimer == InitTimer /\ [][NextTimer]_vars

(***************************************************************************)
(* The retry helpers on their own: one caller invokes retryWithBackoff    *)
(* with an action whose invocations behave as outs says, or asks          *)
(* calculateNextRetry for the retry time of an error.                      *)
(***************************************************************************)
HintErrors == {E429, EPhrase, E500, EHours, EMillis}
RetryIdle ==
  [pc |-> "idle", outs |-> << >>, res |-> OkResult, calls |-> 0, sleeps |-> 0,
   attemptCount |-> 0, error |-> OkResult, at |-> 0]

RetryCall(i, outs) ==
  /\ reqs[i].pc = "idle"
  /\ LET r == retryWithBackoff(outs, DefaultMaxRetries) IN
     reqs' = SetReq(i, [reqs[i] EXCEPT !.pc = "returned", !.outs = outs, !.res = r.res,
                                       !.calls = r.calls, !.sleeps = r.sleeps])
  /\ lastOp' = Other
  /\ UNCHANGED <<now, resumes, candidates, jobs, matchResults, queue, isRunning, tasks, focus>>

NextRetryCall(i, attemptCount, error) ==
  /\ reqs[i].pc = "idle"
  /\ \E at \in calculateNextRetry(attemptCount, error, now) :
       reqs' = SetReq(i, [reqs[i] EXCEPT !.pc = "computed", !.attemptCount = attemptCount,
                                         !.error = error, !.at = at])
  /\ lastOp' = Other
  /\ UNCHANGED <<now, resumes, candidates, jobs, matchResults, queue, isRunning, tasks, focus>>

InitRetry ==
  /\ now \in {0, ShortWait}
  /\ focus = "retry"
  /\ resumes = {}
  /\ candidates = {}
  /\ jobs = {}
  /\ matchResults = {}
  /\ queue = [k \in Kinds |-> {}]
  /\ isRunning = [k \in Kinds |-> FALSE]
  /\ tasks = [k \in Kinds |-> {}]
  /\ reqs = [i \in {"r1"} |-> RetryIdle]
  /\ lastOp = Other

NextRetry ==
  \/ \E outs \in OutcomeSeqs : RetryCall("r1", outs)
  \/ \E attemptCount \in 0..MAX_RETRIES : \E error \in HintErrors :
       NextRetryCall("r1", attemptCount, error)

SpecRetry == InitRetry /\ [][NextRetry]_vars

(***************************************************************************)
RowOf(k, id) == ById(queue[k], id)
Horizon == 300 * DaySecs

\* C1: every queue holds at most one row per owner key, and an enqueue leaves
\* the key's row pending with attemptCount 0, nextRetryAt null and lastError
\* null, hence eligible, whatever the row was before.
C1_SinglePending ==
  /\ \A k \in Kinds : \A r1, r2 \in queue[k] : r1.key = r2.key => r1 = r2
  /\ lastOp.op = "enqueue" =>
       \E r \in queue[focus] :
          /\ r.key = <<lastOp.id, lastOp.a>>
          /\ r.status = "pending" /\ r.attemptCount = 0
          /\ r.nextRetryAt = NULL /\ r.lastError = NoError
          /\ r \in getRetryableJobs(queue[focus], now)

\* A dormant row (three failures) has just been enqueued again.
C1_Witness == lastOp.op = "enqueue" /\ lastOp.b >= MAX_RETRIES

\* C2: the third consecutive failure of a row since its enqueue leaves the row
\* in the table with attemptCount 3, lastError set and nextRetryAt more than
\* 300 days after the failure, so no fetch within those 300 days returns it;
\* and a cycle never picks up a row whose nextRetryAt lies in the future.
C2_RetryCeiling ==
  /\ (lastOp.op \in {"failRate", "failOther"} /\ lastOp.a = 2 /\ lastOp.b = 2) =>
       /\ Has(queue[focus], lastOp.id)
       /\ LET r == RowOf(focus, lastOp.id) IN
          /\ r.attemptCount = 3
          /\ r.lastError # NoError
          /\ r.nextRetryAt > now + Horizon
          /\ \A t \in {now, now + ShortWait, now + Horizon} :
               r \notin getRetryableJobs(queue[focus], t)
  /\ lastOp.op = "tick" =>
       \A t \in tasks[focus] :
          Has(queue[focus], t.id) /\ RowOf(focus, t.id).nextRetryAt <= now

C2_Witness ==
  /\ lastOp.op \in {"failRate", "failOther"} /\ lastOp.a = 2 /\ lastOp.b = 2
  /\ focus = "analysis"

\* C3: createMatchAndCompleteJob inserts the result and deletes the queue row
\* together or does neither, and no pair of hashes ever has two results.
C3_AtomicMatchCompletion ==
  /\ lastOp.op = "createMatchAndCompleteJob" => lastOp.a = lastOp.b
  /\ \A m1, m2 \in matchResults : (m1.rh = m2.rh /\ m1.jh = m2.jh) => m1 = m2

\* The worker completed a row: the result is there and the row is gone.
C3_Witness ==
  /\ lastOp.op = "createMatchAndCompleteJob" /\ lastOp.a = 1
  /\ matchResults # {} /\ queue["match"] = {}

\* C10 (as claimed): after a failure on an error that isRateLimitError rejects,
\* the row is not left pending with a retry time ahead of it.
C10_UnclassifiedNeverRetried ==
  lastOp.op = "failOther" =>
    ~ \E r \in queue[focus] :
        /\ r.id = lastOp.id /\ r.status = "pending"
        /\ r.nextRetryAt # NULL /\ r.nextRetryAt <= now + ShortWait

(***************************************************************************)
(* Properties of the request paths                                         *)
(***************************************************************************)
\* C6 (as claimed): a submission of bytes that a resume already holds is
\* reported skipped with that resume's id, and no fingerprint has two resumes
\* and no resume two candidates.
C6_SameBytesSkipped ==
  /\ \A i \in DOMAIN reqs :
       (reqs[i].pc = "done" /\ reqs[i].pre # NULL) =>
         (reqs[i].status = "skipped" /\ reqs[i].resumeId = reqs[i].pre)
  /\ \A r1, r2 \in resumes : r1.hash = r2.hash => r1 = r2
  /\ \A c1, c2 \in candidates : c1.resumeId = c2.resumeId => c1 = c2

C8_RateLimitQueues ==
  \A i \in DOMAIN reqs :
     (reqs[i].pc = "done" /\ isRateLimitError(reqs[i].out)) =>
       /\ reqs[i].status = "queued"
       /\ Cardinality({r \in queue["analysis"] : r.key = <<reqs[i].jobId, 0>>}) = 1

PairRows(c) ==
  {m \in matchResults : m.rh = ById(resumes, ById(candidates, c).resumeId).hash}

\* C4: no hash pair ever has two results, whatever the requests and the worker
\* do; batchCreateMatchResults raises in no request and returns exactly the
\* rows that its call added to the table.
C4_OneResultPerPair ==
  /\ \A m1, m2 \in matchResults : (m1.rh = m2.rh /\ m1.jh = m2.jh) => m1 = m2
  /\ \A i \in DOMAIN reqs :
       reqs[i].pc = "done" =>
         /\ reqs[i].status # "error"
         /\ reqs[i].created = reqs[i].inserted
         /\ reqs[i].created \subseteq matchResults

\* Both requests scored candidate 301 for the same new pair; one of them
\* created its row, the other created none, and one row is in the table.
C4_Witness ==
  /\ \A i \in DOMAIN reqs : reqs[i].pc = "done" /\ 301 \in reqs[i].calls
  /\ \E i \in DOMAIN reqs : \E m \in reqs[i].created : m.candidateId = 301
  /\ \E i \in DOMAIN reqs : ~ \E m \in reqs[i].created : m.candidateId = 301
  /\ Cardinality(PairRows(301)) = 1

\* C5 (as claimed): a request inserts as many rows as it made scoring calls
\* that succeeded.
C5_InsertsEqualSuccessfulCalls ==
  \A i \in DOMAIN reqs :
     reqs[i].pc = "done" => Cardinality(reqs[i].inserted) = reqs[i].okCalls

\* C9 (as claimed): no result row carries the values that stand in for a
\* failed inference call.
C9_NoPlaceholderResult ==
  \A m \in matchResults : m.analysis # FailureText

\* C11 (as claimed): once a job creation whose inference call was rate-limited
\* has answered, the job either has its skills or has a job-analysis queue
\* row from which a later worker cycle can analyze it.
C11_RateLimitedJobAwaitsWorker ==
  \A i \in DOMAIN reqs :
     (reqs[i].pc = "done" /\ isRateLimitError(reqs[i].out) /\ Has(jobs, reqs[i].jobId)) =>
       \/ ById(jobs, reqs[i].jobId).skills # "empty"
       \/ \E r \in queue["analysis"] : r.key = <<reqs[i].jobId, 0>>

\* C12 (as claimed): no candidate row holds the values that stand in for
\* fields the extraction did not deliver.
C12_NoUnknownCandidate ==
  \A c \in candidates : c.info # candidateData("null")

\* C13 (as claimed): no queue row is in the hands of two item promises of one
\* worker at once, whatever a store write inside a cycle does.
C13_RowInOneCycle ==
  \A k \in Kinds : \A t1, t2 \in tasks[k] :
     (t1.id = t2.id /\ t1.pc # "done" /\ t2.pc # "done") => t1 = t2

\* C14 (as claimed): a match request that has answered returned the stored
\* result of every candidate whose pair it found already scored, whatever
\* happened to the other candidates of the request.
C14_OtherUnitsAnswered ==
  \A i \in DOMAIN reqs :
     (reqs[i].pc = "done" /\ focus = "match") => reqs[i].existing \subseteq reqs[i].answered

\* The invocation at which retryWithBackoff meets something other than a
\* rate-limit error, all earlier invocations having been rate-limited.
FirstOther(outs, k) ==
  /\ k \in 1..Len(outs)
  /\ \A j \in 1..(k - 1) : outs[j] # OkResult /\ isRateLimitError(outs[j])
  /\ outs[k] = OkResult \/ ~isRateLimitError(outs[k])

\* C15: when an invocation of the action raises an error that is not a rate
\* limit, retryWithBackoff raises that same error, having invoked the action
\* no further and slept only after the rate-limit errors before it.
C15_OtherErrorPropagates ==
  \A i \in DOMAIN reqs : \A k \in 1..(DefaultMaxRetries + 1) :
     (reqs[i].pc = "returned" /\ FirstOther(reqs[i].outs, k) /\ reqs[i].outs[k] # OkResult) =>
        /\ reqs[i].res = reqs[i].outs[k]
        /\ reqs[i].calls = k
        /\ reqs[i].sleeps = k - 1

\* The second invocation raised a server error after a rate-limited first one.
C15_Witness ==
  /\ focus = "retry" /\ reqs["r1"].pc = "returned"
  /\ reqs["r1"].outs[1] = E429 /\ reqs["r1"].outs[2] = E500
  /\ reqs["r1"].res = E500 /\ reqs["r1"].calls = 2 /\ reqs["r1"].sleeps = 1

\* C16: retryWithBackoff with 3 retries sleeps at most 3 times; rate-limited
\* on every invocation it raises the exhaustion error after the fourth; an
\* invocation that succeeds is the last one and its result is returned.
C16_BoundedRetries ==
  \A i \in DOMAIN reqs :
     reqs[i].pc = "returned" =>
        /\ reqs[i].sleeps <= DefaultMaxRetries
        /\ reqs[i].calls = reqs[i].sleeps + 1
        /\ (\A j \in 1..(DefaultMaxRetries + 1) :
               reqs[i].outs[j] # OkResult /\ isRateLimitError(reqs[i].outs[j])) =>
             /\ reqs[i].res = EExhausted
             /\ reqs[i].res.cls = "RateLimitError"
             /\ reqs[i].sleeps = DefaultMaxRetries
        /\ \A k \in 1..(DefaultMaxRetries + 1) :
             (FirstOther(reqs[i].outs, k) /\ reqs[i].outs[k] = OkResult) =>
                reqs[i].res = OkResult /\ reqs[i].calls = k

\* Every invocation was rate-limited and the helper gave up.
C16_Witness ==
  /\ focus = "retry" /\ reqs["r1"].pc = "returned"
  /\ \A j \in 1..(DefaultMaxRetries + 1) : reqs["r1"].outs[j] \in {E429, EPhrase}
  /\ reqs["r1"].res = EExhausted /\ reqs["r1"].sleeps = 3 /\ reqs["r1"].calls = 4

C18_AttemptCountAtMostThree ==
  \A k \in Kinds : \A r \in queue[k] : r.attemptCount <= MAX_RETRIES

\* C19: the rows a cycle starts on are exactly the rows of its queue with
\* status pending and nextRetryAt null or not after the current time: none
\* before its nextRetryAt, and every freshly enqueued row.
C19_EligibilityFetch ==
  lastOp.op = "tick" =>
    {t.id : t \in Current(focus)} =
      {r.id : r \in {x \in queue[focus] :
                        /\ x.status = "pending"
                        /\ (x.nextRetryAt = NULL \/ ~(x.nextRetryAt > now))}}

\* A cycle starts on a row whose retry time, set by an earlier failure, has passed.
C19_Witness ==
  /\ lastOp.op = "tick"
  /\ \E t \in Current(focus) :
       /\ Has(queue[focus], t.id)
       /\ RowOf(focus, t.id).attemptCount = 1
       /\ RowOf(focus, t.id).nextRetryAt # NULL
       /\ RowOf(focus, t.id).nextRetryAt < now

\* C20: in every step the attemptCount of a queue row stays as it is, or
\* grows by exactly 1 in the step that records a failed attempt on that row,
\* or is reset to 0 by an enqueue of the row's key; and every step that
\* records a failed attempt on an existing row grows its count by exactly 1.
C20_AttemptCountFrame ==
  [][/\ \A k \in Kinds : \A r \in queue[k] : \A r2 \in queue'[k] :
          r2.id = r.id =>
            \/ r2.attemptCount = r.attemptCount
            \/ /\ r2.attemptCount = r.attemptCount + 1
               /\ lastOp'.op \in {"failRate", "failOther"}
               /\ lastOp'.id = r.id
            \/ /\ r2.attemptCount = 0
               /\ lastOp'.op = "enqueue"
               /\ r.key = <<lastOp'.id, lastOp'.a>>
     /\ (lastOp'.op \in {"failRate", "failOther"} /\ Has(queue[focus], lastOp'.id)) =>
          /\ Has(queue'[focus], lastOp'.id)
          /\ ById(queue'[focus], lastOp'.id).attemptCount =
               ById(queue[focus], lastOp'.id).attemptCount + 1
    ]_vars

\* A second failed attempt has just been recorded on a row: its count went from 1 to 2.
C20_Witness ==
  /\ lastOp.op \in {"failRate", "failOther"}
  /\ lastOp.b = 1
  /\ Has(queue[focus], lastOp.id)
  /\ RowOf(focus, lastOp.id).attemptCount = 2

\* What an item knows about its entities when it starts: the match worker
\* looks them up in the maps fetched at the start of the cycle, the other
\* workers read the store.
EntityFound(t) == IF focus = "match" THEN t.pre ELSE Referenced(focus, t.key)

C22_DuplicatePairIgnored ==
  (lastOp.op = "createMatchAndCompleteJob" /\ focus = "match") =>
    \A t \in tasks["match"] :
       (/\ t.id = lastOp.id
        /\ Referenced("match", t.key)
        /\ ~uniqueMatch(matchResults, MatchData(t, ""))) =>
          /\ ~Has(queue["match"], t.id)
          /\ t.pc # "fail"

\* C23 (as claimed): when an upload that created its resume has finished, an
\* anonymization that succeeded is stored on the resume and one that was
\* rate-limited has its queue row, whatever the extraction did.
C23_AnonymizationIndependent ==
  \A i \in DOMAIN reqs :
     (/\ focus = "upload" /\ reqs[i].pc = "done"
      /\ reqs[i].status # "skipped" /\ reqs[i].resumeId # NULL) =>
        /\ reqs[i].anon = OkResult => ById(resumes, reqs[i].resumeId).html
        /\ (reqs[i].anon # OkResult /\ isRateLimitError(reqs[i].anon)) =>
             \E r \in queue["anonymization"] : r.key = <<reqs[i].resumeId, 0>>

\* C24 (as claimed): however often the persist step of the extraction worker
\* runs for a queue row, the resume has at most one candidate.
C24_OneCandidateAfterRerun ==
  \A r \in resumes : Cardinality({c \in candidates : c.resumeId = r.id}) <= 1

\* C25 (as claimed): a poll cycle begins on a timer only in a module whose
\* last start*Worker call was not followed by a stop*Worker call.
C25_NoCycleAfterStop ==
  (focus = "extraction" /\ DOMAIN reqs = Modules /\ lastOp.op = "tick") =>
     reqs[focus].intervalId # NULL

\* The derived result of the item t is in the store.
Persisted(t) ==
  CASE focus = "extraction" ->
         \E c \in candidates : c.resumeId = t.key[1] /\ c.info = t.val
    [] focus = "anonymization" ->
         Has(resumes, t.key[1]) /\ ById(resumes, t.key[1]).html
    [] focus = "analysis" ->
         Has(jobs, t.key[1]) /\ ById(jobs, t.key[1]).skills = t.val
    [] OTHER -> FALSE

\* C26: in the extraction, anonymization and analysis workers a step deletes
\* a queue row only for a missing entity or when the item's result is already
\* in the store; and at every point, restarts included, a resume without a
\* candidate (without its HTML) still has its extraction (anonymization) row.
C26_DeleteAfterPersist ==
  /\ [][\A r \in queue[focus] :
          ~Has(queue'[focus], r.id) =>
             \/ lastOp'.op = "removed"
             \/ \E t \in tasks[focus] : t.id = r.id /\ t.pc = "complete" /\ Persisted(t)
       ]_vars
  /\ [](focus = "extraction" =>
          \A r \in resumes :
             \/ \E c \in candidates : c.resumeId = r.id
             \/ \E q \in queue["extraction"] : q.key = <<r.id, 0>>)
  /\ [](focus = "anonymization" =>
          \A r \in resumes :
             r.html \/ \E q \in queue["anonymization"] : q.key = <<r.id, 0>>)

\* The process stopped after the candidate was stored and before the row was
\* deleted: the candidate is there and the row is still pending.
C26_Witness ==
  /\ focus = "extraction" /\ ~isRunning[focus] /\ tasks[focus] = {}
  /\ \E q \in queue["extraction"] :
       /\ q.key = <<101, 0>> /\ q.attemptCount = 0
       /\ \E c \in candidates : c.resumeId = 101

\* C27 (as claimed): a row that a recorded failure has just made dormant (its
\* nextRetryAt 365 days ahead) has an attemptCount of at least 3.
C27_DormantOnlyAtCeiling ==
  (lastOp.op \in {"failRate", "failOther"} /\ Has(queue[focus], lastOp.id)) =>
     (RowOf(focus, lastOp.id).nextRetryAt = now + FarFuture =>
        RowOf(focus, lastOp.id).attemptCount >= MAX_RETRIES)

\* C28: the error retryWithBackoff raises when its retries are exhausted is a
\* rate limit for isRateLimitError, a simulated rate limit ends as that same
\* error, and the upload path that handles such a result for extraction or
\* for anonymization leaves a queue row for the resume and does not report
\* the file as failed on its account.
ExtractionHandled(r) == r.pc \in {"anonymization", "done"} /\ r.resumeId # NULL
AnonymizationHandled(r) ==
  r.pc = "done" /\ r.resumeId # NULL /\ (r.ext = OkResult \/ isRateLimitError(r.ext))
C28_ExhaustionIsQueued ==
  /\ isRateLimitError(EExhausted)
  /\ retryWithBackoff(SimulatedOutcomes, DefaultMaxRetries).res = EExhausted
  /\ \A i \in DOMAIN reqs :
       (focus = "upload" /\ reqs[i].pc # "idle") =>
         /\ (ExtractionHandled(reqs[i]) /\ reqs[i].ext = EExhausted) =>
              /\ \E x \in queue["extraction"] : x.key = <<reqs[i].resumeId, 0>>
              /\ (reqs[i].status = "failed" => ~isRateLimitError(reqs[i].anon))
         /\ (AnonymizationHandled(reqs[i]) /\ reqs[i].anon = EExhausted) =>
              /\ \E x \in queue["anonymization"] : x.key = <<reqs[i].resumeId, 0>>
              /\ reqs[i].status = "completed"
C28_Witness ==
  /\ focus = "upload"
  /\ \E i \in DOMAIN reqs :
       /\ reqs[i].pc = "done" /\ reqs[i].status = "completed"
       /\ reqs[i].ext = EExhausted /\ reqs[i].anon = EExhausted
       /\ \E x \in queue["extraction"] : x.key = <<reqs[i].resumeId, 0>>
       /\ \E x \in queue["anonymization"] : x.key = <<reqs[i].resumeId, 0>>

\* C29: with the timer firing and every call returning, a queue row is
\* eventually deleted or dormant, unless its owner key is enqueued again and
\* again without end; and no attempt starts on a row that has already
\* failed MAX_RETRIES times, so a row is attempted at most MAX_RETRIES times
\* between two enqueues before it is dormant.
Settled == \A r \in queue[focus] : Dormant(r)
C30_ExtractionNeverDropped ==
  (focus = "upload" /\ \A i \in DOMAIN reqs : reqs[i].pc \in {"idle", "done"}) =>
     \A r \in resumes :
        \/ getCandidateByResumeId(candidates, r.id) # {}
        \/ \E x \in queue["extraction"] : x.key = <<r.id, 0>>

====
